---- MODULE Spec2Model ----
(***************************************************************************)
(* hunter_client: a thin HTTP client (HunterClient) for three read-only    *)
(* queries, its exception classes and its pydantic response models.        *)
(*                                                                         *)
(* Python objects are tagged records, one field name per kind, so that any *)
(* two of them can be compared: None, str, int, bool, list, dict and the   *)
(* instances of the response models.  An exception is a record with its    *)
(* class in `error`; a function's outcome is Returned(v) or Raised(exc).   *)
(***************************************************************************)
EXTENDS Integers, Sequences, FiniteSets, TLC

VARIABLES
    client,      \* the HunterClient instance: NoClient until __init__ succeeds
    init_args,   \* the arguments of the last HunterClient(...) attempt
    init_raised, \* what the last HunterClient(...) attempt raised, if anything
    failed_before, \* whether a call the caller has returned from raised
    pc,          \* the caller: "idle", or "done" holding a finished call's outcome
    call,        \* the public operation being called and its arguments
    sent,        \* the requests issued on session.request during that call
    call_count,  \* session.request calls since construction (the mock's call_count)
    reply,       \* what session.request did for that call (returned / raised)
    result       \* what the call returned or raised to the caller

vars == <<client, init_args, init_raised, failed_before,
          pc, call, sent, call_count, reply, result>>

-----------------------------------------------------------------------------
(* Python values *)

PyNone == [k |-> "None"]
PyStr(s) == [k |-> "str", s |-> s]
PyInt(n) == [k |-> "int", n |-> n]
PyBool(b) == [k |-> "bool", b |-> b]
PyList(items) == [k |-> "list", items |-> items]
PyDict(d) == [k |-> "dict", d |-> d]
PyModel(cls, fields) == [k |-> "model", cls |-> cls, fields |-> fields]

\* bool(x) of the kinds of value the client tests for truth
Truthy(x) ==
    CASE x.k = "None" -> FALSE
      [] x.k = "str" -> x.s # ""
      [] x.k = "int" -> x.n # 0
      [] x.k = "bool" -> x.b
      [] x.k = "list" -> Len(x.items) > 0
      [] x.k = "dict" -> DOMAIN x.d # {}

\* type(x).__name__
TypeName(x) == IF x.k = "None" THEN "NoneType" ELSE x.k

EmptyDict == [x \in {} |-> PyNone]

\* d[key] = val on a dict
SetItem(d, key, val) == [x \in DOMAIN d \cup {key} |-> IF x = key THEN val ELSE d[x]]

Returned(v) == [kind |-> "returned", value |-> v]
Raised(exc) == [kind |-> "raised", exc |-> exc]
NoOutcome == [kind |-> "none"]

-----------------------------------------------------------------------------
(* exceptions.py, and the built-in exceptions the client lets through *)

DefaultStatusCode == 0

HunterAPIError(message, status_code) ==
    [error |-> "HunterAPIError", message |-> message, status_code |-> status_code]

HunterAuthError(message, status_code) ==
    [error |-> "HunterAuthError", message |-> message, status_code |-> status_code]

HunterRateLimitError(message, status_code) ==
    [error |-> "HunterRateLimitError", message |-> message, status_code |-> status_code]

\* built-in exceptions carry their text only: they have no status_code attribute
ValueError(text) == [error |-> "ValueError", message |-> PyStr(text)]
TypeError(text) == [error |-> "TypeError", message |-> PyStr(text)]
AttributeError(text) == [error |-> "AttributeError", message |-> PyStr(text)]

-----------------------------------------------------------------------------
(* models.py: the declared fields of each pydantic model.  A field without *)
(* a default is required; `= None` fields are optional scalars or models;  *)
(* Field(default_factory=list) fields are lists.                           *)

Typed(names, type) == [n \in names |-> type]

NoFields == [n \in {} |-> "str"]

RequiredFields(cls) ==
    CASE cls = "EmailSource" ->
            Typed({"domain", "uri", "extracted_on", "last_seen_on"}, "str")
            @@ Typed({"still_on_page"}, "bool")
      [] cls = "EmailVerification" -> NoFields
      [] cls = "Email" ->
            Typed({"value", "type"}, "str") @@ Typed({"confidence"}, "int")
      [] cls = "DomainSearchData" ->
            Typed({"domain"}, "str")
            @@ Typed({"disposable", "webmail", "accept_all"}, "bool")
      [] cls = "MetaParams" -> NoFields
      [] cls = "Meta" -> NoFields
      [] cls = "DomainSearchResponse" ->
            Typed({"data"}, "DomainSearchData") @@ Typed({"meta"}, "Meta")
      [] cls = "EmailFinderData" ->
            Typed({"first_name", "last_name", "email", "domain"}, "str")
            @@ Typed({"score"}, "int") @@ Typed({"accept_all"}, "bool")
      [] cls = "EmailFinderResponse" ->
            Typed({"data"}, "EmailFinderData") @@ Typed({"meta"}, "Meta")
      [] cls = "EmailVerificationData" ->
            Typed({"status", "result", "email"}, "str") @@ Typed({"score"}, "int")
            @@ Typed({"regexp", "gibberish", "disposable", "webmail", "mx_records",
                      "smtp_server", "smtp_check", "accept_all", "block"}, "bool")
      [] cls = "EmailVerificationResponse" ->
            Typed({"data"}, "EmailVerificationData") @@ Typed({"meta"}, "Meta")

OptionalFields(cls) ==
    CASE cls = "EmailSource" -> NoFields
      [] cls = "EmailVerification" -> Typed({"date", "status"}, "str")
      [] cls = "Email" ->
            Typed({"first_name", "last_name", "position", "seniority", "department",
                   "linkedin", "twitter", "phone_number"}, "str")
            @@ Typed({"verification"}, "EmailVerification")
      [] cls = "DomainSearchData" ->
            Typed({"pattern", "organization", "description", "industry", "twitter",
                   "facebook", "linkedin", "instagram", "youtube", "country", "state",
                   "city", "postal_code", "street", "headcount", "company_type"}, "str")
      [] cls = "MetaParams" ->
            Typed({"domain", "company", "type", "seniority", "department",
                   "first_name", "last_name", "full_name", "email"}, "str")
      [] cls = "Meta" ->
            Typed({"results", "limit", "offset"}, "int") @@ Typed({"params"}, "MetaParams")
      [] cls = "DomainSearchResponse" -> NoFields
      [] cls = "EmailFinderData" ->
            Typed({"position", "twitter", "linkedin_url", "phone_number", "company"}, "str")
            @@ Typed({"verification"}, "EmailVerification")
      [] cls = "EmailFinderResponse" -> NoFields
      [] cls = "EmailVerificationData" -> NoFields
      [] cls = "EmailVerificationResponse" -> NoFields

ListFields(cls) ==
    CASE cls = "Email" -> Typed({"sources"}, "EmailSource")
      [] cls = "DomainSearchData" ->
            Typed({"technologies", "linked_domains"}, "str") @@ Typed({"emails"}, "Email")
      [] cls = "EmailFinderData" -> Typed({"sources"}, "EmailSource")
      [] cls = "EmailVerificationData" -> Typed({"sources"}, "EmailSource")
      [] OTHER -> NoFields

\* pydantic's error for a mapping that does not fit the model (a ValueError subclass
\* of pydantic's own)
ValidationError(cls) == [error |-> "ValidationError", model |-> cls]

(* The class each exception class derives from: exceptions.py for the three *)
(* Hunter errors, Python for its built-ins, pydantic for ValidationError.   *)
BaseOf(cls) ==
    CASE cls = "HunterAuthError" -> "HunterAPIError"
      [] cls = "HunterRateLimitError" -> "HunterAPIError"
      [] cls = "HunterAPIError" -> "Exception"
      [] cls = "ValidationError" -> "ValueError"
      [] cls \in {"ValueError", "TypeError", "AttributeError"} -> "Exception"
      [] cls = "Exception" -> "BaseException"

RECURSIVE IsSubclass(_, _)
IsSubclass(cls, base) ==
    \/ cls = base
    \/ cls # "BaseException" /\ IsSubclass(BaseOf(cls), base)

\* isinstance(exc, cls): whether `except cls` receives exc
IsInstance(exc, cls) == IsSubclass(exc.error, cls)


(* BaseModel.__init__ on keyword arguments: required fields present, valid, *)
(* every given optional field None or valid, every given list field a list *)
(* of valid items; keys that are no field are ignored; a field not given   *)
(* takes its default.  A None, list or dict where a str, int or bool is    *)
(* declared is invalid, and so is anything but a dict where a model is     *)
(* declared.  (pydantic may coerce one scalar kind into another; the       *)
(* bodies explored here hold no scalar of another kind than declared.)     *)
RECURSIVE ValidateValue(_, _)
RECURSIVE ModelInit(_, _)

\* a slip: `= None` where Field(default_factory=list) is meant
ModelInitListNone(cls, kwargs) ==
    LET req == RequiredFields(cls)
        opt == OptionalFields(cls)
        lst == ListFields(cls)
        given == DOMAIN kwargs
        reqOK == \A f \in DOMAIN req :
                    f \in given /\ ValidateValue(req[f], kwargs[f]).ok
        optOK == \A f \in DOMAIN opt \cap given :
                    kwargs[f].k = "None" \/ ValidateValue(opt[f], kwargs[f]).ok
        lstOK == \A f \in DOMAIN lst \cap given :
                    /\ kwargs[f].k = "list"
                    /\ \A i \in 1..Len(kwargs[f].items) :
                          ValidateValue(lst[f], kwargs[f].items[i]).ok
        fieldOf(f) ==
            IF f \in DOMAIN req THEN ValidateValue(req[f], kwargs[f]).v
            ELSE IF f \in DOMAIN opt
            THEN IF f \in given /\ kwargs[f].k # "None"
                 THEN ValidateValue(opt[f], kwargs[f]).v
                 ELSE PyNone
            ELSE IF f \in given
                 THEN PyList([i \in 1..Len(kwargs[f].items) |->
                                 ValidateValue(lst[f], kwargs[f].items[i]).v])
                 ELSE PyNone
    IN  IF reqOK /\ optOK /\ lstOK
        THEN [ok |-> TRUE,
              v |-> PyModel(cls, [f \in DOMAIN req \cup DOMAIN opt \cup DOMAIN lst |->
                                      fieldOf(f)])]
        ELSE [ok |-> FALSE]

ValidateValue(type, x) ==
    IF type \in {"str", "int", "bool"}
    THEN CASE x.k = type -> [ok |-> TRUE, v |-> x]
           [] x.k \in {"None", "list", "dict"} -> [ok |-> FALSE]
    ELSE IF x.k = "dict" THEN ModelInit(type, x.d) ELSE [ok |-> FALSE]

ModelInit(cls, kwargs) ==
    LET req == RequiredFields(cls)
        opt == OptionalFields(cls)
        lst == ListFields(cls)
        given == DOMAIN kwargs
        reqOK == \A f \in DOMAIN req :
                    f \in given /\ ValidateValue(req[f], kwargs[f]).ok
        optOK == \A f \in DOMAIN opt \cap given :
                    kwargs[f].k = "None" \/ ValidateValue(opt[f], kwargs[f]).ok
        lstOK == \A f \in DOMAIN lst \cap given :
                    /\ kwargs[f].k = "list"
                    /\ \A i \in 1..Len(kwargs[f].items) :
                          ValidateValue(lst[f], kwargs[f].items[i]).ok
        fieldOf(f) ==
            IF f \in DOMAIN req THEN ValidateValue(req[f], kwargs[f]).v
            ELSE IF f \in DOMAIN opt
            THEN IF f \in given /\ kwargs[f].k # "None"
                 THEN ValidateValue(opt[f], kwargs[f]).v
                 ELSE PyNone
            ELSE IF f \in given
                 THEN PyList([i \in 1..Len(kwargs[f].items) |->
                                 ValidateValue(lst[f], kwargs[f].items[i]).v])
                 ELSE PyList(<<>>)
    IN  IF reqOK /\ optOK /\ lstOK
        THEN [ok |-> TRUE,
              v |-> PyModel(cls, [f \in DOMAIN req \cup DOMAIN opt \cup DOMAIN lst |->
                                      fieldOf(f)])]
        ELSE [ok |-> FALSE]

\* a slip: Cls.model_construct, which sets the given values without validating
ResponseInitUnvalidated(cls, response_data) ==
    IF response_data.k # "dict"
    THEN Raised(TypeError("argument after ** must be a mapping"))
    ELSE LET r == ModelInit(cls, response_data.d)
         IN  IF r.ok THEN Returned(r.v) ELSE Returned(PyModel(cls, response_data.d))

\* a slip: the model's error caught and re-raised as a HunterAPIError
ResponseInitWrapped(cls, response_data) ==
    IF response_data.k # "dict"
    THEN Raised(TypeError("argument after ** must be a mapping"))
    ELSE LET r == ModelInit(cls, response_data.d)
         IN  IF r.ok
             THEN Returned(r.v)
             ELSE Raised(HunterAPIError(PyStr("Invalid response"), DefaultStatusCode))

\* Cls called with response_data unpacked into keyword arguments
ResponseInit(cls, response_data) ==
    IF response_data.k # "dict"
    THEN Raised(TypeError("argument after ** must be a mapping"))
    ELSE LET r == ModelInit(cls, response_data.d)
         IN  IF r.ok THEN Returned(r.v) ELSE Raised(ValidationError(cls))

-----------------------------------------------------------------------------
(* client.py: HunterClient *)

DefaultTimeout == 30
BaseUrl == "https://api.hunter.io/v2/"
NoClient == [constructed |-> FALSE]

\* a slip: `if api_key is None`
HunterClientInitNoneOnly(api_key, timeout) ==
    IF api_key.k = "None"
    THEN Raised(ValueError("API key is required"))
    ELSE Returned([constructed |-> TRUE,
                   api_key |-> api_key,
                   timeout |-> timeout,
                   session |-> "requests.Session#1",
                   base_url |-> "https://api.hunter.io/v2/"])

\* HunterClient.__init__(api_key, timeout)
HunterClientInit(api_key, timeout) ==
    IF ~Truthy(api_key)
    THEN Raised(ValueError("API key is required"))
    ELSE Returned([constructed |-> TRUE,
                   api_key |-> api_key,
                   timeout |-> timeout,
                   session |-> "requests.Session#1",
                   base_url |-> BaseUrl])

\* the call HunterClient(api_key) or HunterClient(api_key, timeout):
\* args.timeout is <<>> when the timeout is left to its default
HunterClient(args) ==
    HunterClientInit(args.api_key,
                     IF args.timeout = <<>> THEN DefaultTimeout ELSE args.timeout[1])

\* urljoin(base, endpoint) for a base ending in "/" and a relative endpoint
urljoin(base, endpoint) == base \o endpoint

\* response.json(): the parsed body, or a ValueError (JSONDecodeError) with the
\* decoder's description
ResponseJson(response) ==
    IF response.body.wellformed
    THEN Returned(response.body.value)
    ELSE Raised(ValueError(response.body.fault))

\* `key in x` for a str key: None, int and bool are not containers.  (A body that
\* is a bare JSON string is not among the bodies explored: `in` is then a
\* substring test.)
Contains(x, key) ==
    CASE x.k = "dict" -> Returned(key \in DOMAIN x.d)
      [] x.k = "list" -> Returned(\E i \in 1..Len(x.items) : x.items[i] = PyStr(key))
      [] x.k \in {"None", "int", "bool"} ->
            Raised(TypeError("argument of type '" \o TypeName(x) \o "' is not iterable"))

\* x[key] for a str key, reached only after `key in x` was true
GetItem(x, key) ==
    CASE x.k = "dict" -> Returned(x.d[key])
      [] x.k = "list" -> Raised(TypeError("list indices must be integers or slices, not str"))

\* x.get(key, default): only a dict has the method
DictGet(x, key, default) ==
    IF x.k = "dict"
    THEN Returned(IF key \in DOMAIN x.d THEN x.d[key] ELSE default)
    ELSE Raised(AttributeError("'" \o TypeName(x) \o "' object has no attribute 'get'"))

FallbackMessage == PyStr("API request failed")

\* HunterClient._extract_error_message: only ValueError and KeyError are caught
ExtractErrorMessage(response) ==
    LET error_message == FallbackMessage
        parsed == ResponseJson(response)
    IN  IF parsed.kind = "raised"
        THEN Returned(error_message)
        ELSE LET error_data == parsed.value
                 has == Contains(error_data, "errors")
             IN  IF has.kind = "raised" THEN has
                 ELSE IF ~has.value THEN Returned(error_message)
                 ELSE LET got == GetItem(error_data, "errors")
                      IN  IF got.kind = "raised" THEN got
                          ELSE LET errors == got.value
                               IN  IF Truthy(errors) /\ errors.k = "list"
                                   THEN DictGet(errors.items[1], "details", error_message)
                                   ELSE Returned(error_message)

\* a slip: the parse failure reported with the response's HTTP status
ParseJsonResponseWithStatus(response) ==
    LET parsed == ResponseJson(response)
    IN  IF parsed.kind = "raised"
        THEN Raised(HunterAPIError(
                 PyStr("Invalid JSON response: " \o parsed.exc.message.s),
                 response.status_code))
        ELSE parsed

\* HunterClient._parse_json_response
ParseJsonResponse(response) ==
    LET parsed == ResponseJson(response)
    IN  IF parsed.kind = "raised"
        THEN Raised(HunterAPIError(
                 PyStr("Invalid JSON response: " \o parsed.exc.message.s),
                 DefaultStatusCode))
        ELSE parsed

unauthorized_status_code == 401
rate_limit_status_code == 429
bad_request_status_code == 400

\* a slip: the >= 400 branch tested before the 401 branch
ProcessResponseGenericFirst(response) ==
    IF response.status_code >= 400 /\ response.status_code # 429
    THEN LET error_message == ExtractErrorMessage(response)
         IN  IF error_message.kind = "raised"
             THEN error_message
             ELSE Raised(HunterAPIError(error_message.value, response.status_code))
    ELSE IF response.status_code = 429
    THEN Raised(HunterRateLimitError(PyStr("Rate limit exceeded"), response.status_code))
    ELSE ParseJsonResponse(response)

\* a slip: no branch for 429, which falls to the generic branch
ProcessResponseNoRateLimit(response) ==
    IF response.status_code = 401
    THEN Raised(HunterAuthError(PyStr("Invalid API key"), response.status_code))
    ELSE IF response.status_code >= 400
    THEN LET error_message == ExtractErrorMessage(response)
         IN  IF error_message.kind = "raised"
             THEN error_message
             ELSE Raised(HunterAPIError(error_message.value, response.status_code))
    ELSE ParseJsonResponse(response)

\* a slip: every status but 200 taken for a failure
ProcessResponseOnly200(response) ==
    IF response.status_code = 401
    THEN Raised(HunterAuthError(PyStr("Invalid API key"), response.status_code))
    ELSE IF response.status_code = 429
    THEN Raised(HunterRateLimitError(PyStr("Rate limit exceeded"), response.status_code))
    ELSE IF response.status_code # 200
    THEN LET error_message == ExtractErrorMessage(response)
         IN  IF error_message.kind = "raised"
             THEN error_message
             ELSE Raised(HunterAPIError(error_message.value, response.status_code))
    ELSE ParseJsonResponse(response)

\* a slip: the generic error raised without the response's status code
ProcessResponseStatusDropped(response) ==
    IF response.status_code = unauthorized_status_code
    THEN Raised(HunterAuthError(PyStr("Invalid API key"), response.status_code))
    ELSE IF response.status_code = rate_limit_status_code
    THEN Raised(HunterRateLimitError(PyStr("Rate limit exceeded"), response.status_code))
    ELSE IF response.status_code >= bad_request_status_code
    THEN LET error_message == ExtractErrorMessage(response)
         IN  IF error_message.kind = "raised"
             THEN error_message
             ELSE Raised(HunterAPIError(error_message.value, DefaultStatusCode))
    ELSE ParseJsonResponse(response)

\* HunterClient._process_response
ProcessResponse(response) ==
    IF response.status_code = unauthorized_status_code
    THEN Raised(HunterAuthError(PyStr("Invalid API key"), response.status_code))
    ELSE IF response.status_code = rate_limit_status_code
    THEN Raised(HunterRateLimitError(PyStr("Rate limit exceeded"), response.status_code))
    ELSE IF response.status_code >= bad_request_status_code
    THEN LET error_message == ExtractErrorMessage(response)
         IN  IF error_message.kind = "raised"
             THEN error_message
             ELSE Raised(HunterAPIError(error_message.value, response.status_code))
    ELSE ParseJsonResponse(response)

\* a slip: a rate-limited request sent once more
ExecuteRequestRetrying(self, method, url, request_params, transport) ==
    LET request == [method |-> method, url |-> url, params |-> request_params,
                    timeout |-> self.timeout]
    IN  IF transport.kind = "raises"
        THEN [self |-> self, sent |-> <<request>>,
              out |-> Raised(HunterAPIError(
                         PyStr("Request failed: " \o transport.exc.text),
                         DefaultStatusCode))]
        ELSE IF transport.response.status_code = 429
        THEN [self |-> self, sent |-> <<request, request>>, out |-> ProcessResponse(transport.response)]
        ELSE [self |-> self, sent |-> <<request>>, out |-> ProcessResponse(transport.response)]

\* a slip: the RequestException not caught
ExecuteRequestUncaught(self, method, url, request_params, transport) ==
    LET request == [method |-> method, url |-> url, params |-> request_params,
                    timeout |-> self.timeout]
    IN  IF transport.kind = "raises"
        THEN [self |-> self, sent |-> <<request>>,
              out |-> Raised([error |-> transport.exc.cls,
                              message |-> PyStr(transport.exc.text)])]
        ELSE [self |-> self, sent |-> <<request>>, out |-> ProcessResponse(transport.response)]

\* a slip: a back-off kept on the instance, the timeout doubled after a failed request
ExecuteRequestBackingOff(self, method, url, request_params, transport) ==
    LET request == [method |-> method, url |-> url, params |-> request_params,
                    timeout |-> self.timeout]
    IN  IF transport.kind = "raises"
        THEN [self |-> [self EXCEPT !.timeout = 2 * self.timeout],
              sent |-> <<request>>,
              out |-> Raised(HunterAPIError(
                         PyStr("Request failed: " \o transport.exc.text),
                         DefaultStatusCode))]
        ELSE [self |-> self, sent |-> <<request>>, out |-> ProcessResponse(transport.response)]

(* HunterClient._execute_request.  `transport` is what session.request does *)
(* when called: it returns a response or raises a RequestException.  The    *)
(* outcome is the instance as the method leaves it (no method assigns to an *)
(* attribute of self), the requests issued, and what the method returns or  *)
(* raises.                                                                  *)
ExecuteRequest(self, method, url, request_params, transport) ==
    LET request == [method |-> method, url |-> url, params |-> request_params,
                    timeout |-> self.timeout]
    IN  IF transport.kind = "raises"
        THEN [self |-> self, sent |-> <<request>>,
              out |-> Raised(HunterAPIError(
                         PyStr("Request failed: " \o transport.exc.text),
                         DefaultStatusCode))]
        ELSE [self |-> self, sent |-> <<request>>, out |-> ProcessResponse(transport.response)]

\* a slip: the outcome of the request kept on the instance (self.last_outcome = ...)
MakeRequestKeepingOutcome(self, endpoint, request_params, transport) ==
    LET url == urljoin(self.base_url, endpoint)
        params == SetItem(request_params, "api_key", self.api_key)
        done == ExecuteRequest(self, "GET", url, params, transport)
    IN  [self |-> [constructed |-> TRUE,
                   api_key |-> self.api_key,
                   timeout |-> self.timeout,
                   session |-> self.session,
                   base_url |-> self.base_url,
                   last_outcome |-> done.out],
         sent |-> done.sent,
         out |-> done.out]

\* HunterClient._make_request, with method left at its default "GET"
MakeRequest(self, endpoint, request_params, transport) ==
    LET url == urljoin(self.base_url, endpoint)
        params == SetItem(request_params, "api_key", self.api_key)
    IN  ExecuteRequest(self, "GET", url, params, transport)

\* `if value: request_params[key] = value`
SetIfTruthy(d, key, val) == IF Truthy(val) THEN SetItem(d, key, val) ELSE d

\* a slip: `if value:` where `if value is not None:` is meant
SetIfNotNoneTruthy(d, key, val) == SetIfTruthy(d, key, val)

\* `if value is not None: request_params[key] = value`
SetIfNotNone(d, key, val) == IF val.k # "None" THEN SetItem(d, key, val) ELSE d

\* a public operation's tail: Cls applied to what _make_request returned
BuildResponse(cls, made) ==
    IF made.out.kind = "raised"
    THEN made
    ELSE [self |-> made.self, sent |-> made.sent,
          out |-> ResponseInit(cls, made.out.value)]

\* a call that raises before _make_request
NothingSent(self, out) == [self |-> self, sent |-> <<>>, out |-> out]

\* HunterClient.domain_search
domain_search(self, a, transport) ==
    IF ~Truthy(a.domain) /\ ~Truthy(a.company)
    THEN NothingSent(self, Raised(ValueError("Either domain or company must be provided")))
    ELSE LET p1 == SetIfTruthy(EmptyDict, "domain", a.domain)
             p2 == SetIfTruthy(p1, "company", a.company)
             p3 == SetIfNotNone(p2, "limit", a.limit)
             p4 == SetIfNotNone(p3, "offset", a.offset)
             p5 == SetIfTruthy(p4, "type", a.type_filter)
             p6 == SetIfTruthy(p5, "seniority", a.seniority)
             p7 == SetIfTruthy(p6, "department", a.department)
             p8 == SetIfTruthy(p7, "required_field", a.required_field)
         IN  BuildResponse("DomainSearchResponse",
                       MakeRequest(self, "domain-search", p8, transport))

\* a slip: `first_name or last_name`
ValidateEmailFinderParamsEitherName(domain, company, first_name, last_name, full_name) ==
    IF ~Truthy(domain) /\ ~Truthy(company)
    THEN Raised(ValueError("Either domain or company must be provided"))
    ELSE LET has_first_and_last == Truthy(first_name) \/ Truthy(last_name)
         IN  IF ~has_first_and_last /\ ~Truthy(full_name)
             THEN Raised(ValueError(
                      "Either first_name and last_name, or full_name must be provided"))
             ELSE Returned(PyNone)

\* HunterClient._validate_email_finder_params: what it raises, or None returned
ValidateEmailFinderParams(domain, company, first_name, last_name, full_name) ==
    IF ~Truthy(domain) /\ ~Truthy(company)
    THEN Raised(ValueError("Either domain or company must be provided"))
    ELSE LET has_first_and_last == Truthy(first_name) /\ Truthy(last_name)
         IN  IF ~has_first_and_last /\ ~Truthy(full_name)
             THEN Raised(ValueError(
                      "Either first_name and last_name, or full_name must be provided"))
             ELSE Returned(PyNone)

\* HunterClient.email_finder
email_finder(self, a, transport) ==
    LET checked == ValidateEmailFinderParams(a.domain, a.company, a.first_name,
                                             a.last_name, a.full_name)
    IN  IF checked.kind = "raised"
        THEN NothingSent(self, checked)
        ELSE LET p1 == SetIfTruthy(EmptyDict, "domain", a.domain)
                 p2 == SetIfTruthy(p1, "company", a.company)
                 p3 == SetIfTruthy(p2, "first_name", a.first_name)
                 p4 == SetIfTruthy(p3, "last_name", a.last_name)
                 p5 == SetIfTruthy(p4, "full_name", a.full_name)
                 p6 == SetIfNotNone(p5, "max_duration", a.max_duration)
             IN  BuildResponse("EmailFinderResponse",
                           MakeRequest(self, "email-finder", p6, transport))

\* a slip: `if email is None`
email_verifier_none_only(self, a, transport) ==
    IF a.email.k = "None"
    THEN NothingSent(self, Raised(ValueError("Email address is required")))
    ELSE BuildResponse("EmailVerificationResponse",
                       MakeRequest(self, "email-verifier",
                                   SetItem(EmptyDict, "email", a.email), transport))

\* HunterClient.email_verifier
email_verifier(self, a, transport) ==
    IF ~Truthy(a.email)
    THEN NothingSent(self, Raised(ValueError("Email address is required")))
    ELSE BuildResponse("EmailVerificationResponse",
                   MakeRequest(self, "email-verifier",
                               SetItem(EmptyDict, "email", a.email), transport))

-----------------------------------------------------------------------------
(* The inputs explored: constructor arguments, call arguments, and what the *)
(* transport does.                                                          *)

MaxRequests == 2

ApiKeys == {PyNone, PyStr(""), PyStr("key-A"), PyStr("key-B")}
Timeouts == {DefaultTimeout, 60}
HunterClientArgs ==
    [api_key : ApiKeys, timeout : {<<>>} \cup {<<t>> : t \in Timeouts}]

StrArg(values) == {PyNone} \cup {PyStr(v) : v \in values}
IntArg(values) == {PyNone} \cup {PyInt(v) : v \in values}

DomainSearchArgs ==
    [domain : StrArg({"", "example.com"}),
     company : StrArg({"", "Acme"}),
     limit : IntArg({0, 10}),
     offset : IntArg({0}),
     type_filter : StrArg({"", "personal"}),
     seniority : StrArg({"senior"}),
     department : StrArg({"it"}),
     required_field : StrArg({"full_name"})]

EmailFinderArgs ==
    [domain : StrArg({"", "example.com"}),
     company : StrArg({"", "Acme"}),
     first_name : StrArg({"", "Ada"}),
     last_name : StrArg({"Lovelace"}),
     full_name : StrArg({"", "Ada Lovelace"}),
     max_duration : IntArg({0, 5})]

EmailVerifierArgs == [email : StrArg({"", "ada@example.com"})]

Dict1(k1, v1) == PyDict(k1 :> v1)
Json(v) == [wellformed |-> TRUE, value |-> v]
NotJson == [wellformed |-> FALSE, fault |-> "Expecting value: line 1 column 1 (char 0)"]

\* bodies in the shape of the API's error reports, and bodies that miss it
ErrorBodies ==
    { Json(Dict1("errors", PyList(<<PyDict(("id" :> PyStr("wrong_params"))
                                          @@ ("code" :> PyInt(400))
                                          @@ ("details" :> PyStr("Invalid domain parameter")))>>))),
      Json(Dict1("errors", PyList(<<Dict1("details", PyStr("First")),
                                    Dict1("details", PyStr("Second"))>>))),
      Json(Dict1("errors", PyList(<<Dict1("details", PyNone)>>))),
      Json(Dict1("errors", PyList(<<Dict1("id", PyStr("wrong_params"))>>))),
      Json(Dict1("errors", PyList(<<>>))),
      Json(Dict1("errors", PyNone)),
      Json(Dict1("errors", Dict1("details", PyStr("Not in a list")))),
      Json(Dict1("message", PyStr("Not found"))),
      Json(Dict1("errors", PyList(<<PyStr("boom")>>))),
      Json(PyList(<<>>)),
      Json(PyList(<<PyStr("errors")>>)),
      Json(PyInt(42)),
      Json(PyNone) }

SourceJson ==
    PyDict(("domain" :> PyStr("example.com")) @@ ("uri" :> PyStr("http://example.com/team"))
           @@ ("extracted_on" :> PyStr("2020-01-01")) @@ ("last_seen_on" :> PyStr("2021-01-01"))
           @@ ("still_on_page" :> PyBool(TRUE)))

DomainDataRequired ==
    ("domain" :> PyStr("example.com")) @@ ("disposable" :> PyBool(FALSE))
    @@ ("webmail" :> PyBool(FALSE)) @@ ("accept_all" :> PyBool(TRUE))

MetaCounts ==
    PyDict(("results" :> PyInt(0)) @@ ("limit" :> PyInt(10)) @@ ("offset" :> PyInt(0)))

\* the body of test_domain_search_with_domain
DomainSearchExampleBody ==
    Json(PyDict(("data" :> PyDict(DomainDataRequired @@ ("emails" :> PyList(<<>>))
                                  @@ ("linked_domains" :> PyList(<<>>))))
                @@ ("meta" :> MetaCounts)))

EmailJson ==
    PyDict(("value" :> PyStr("ada@example.com")) @@ ("type" :> PyStr("personal"))
           @@ ("confidence" :> PyInt(95)) @@ ("sources" :> PyList(<<SourceJson>>))
           @@ ("first_name" :> PyStr("Ada")) @@ ("position" :> PyNone)
           @@ ("verification" :> PyDict(("date" :> PyNone) @@ ("status" :> PyStr("valid")))))

\* an Email given by its required fields alone, and one with an empty verification
EmailRequired ==
    PyDict(("value" :> PyStr("bob@example.com")) @@ ("type" :> PyStr("generic"))
           @@ ("confidence" :> PyInt(50)))

EmailUnverified ==
    PyDict(("value" :> PyStr("eve@example.com")) @@ ("type" :> PyStr("personal"))
           @@ ("confidence" :> PyInt(60)) @@ ("verification" :> PyDict(EmptyDict)))

DomainSearchBodies ==
    { DomainSearchExampleBody,
      Json(PyDict(("data" :> PyDict(DomainDataRequired)) @@ ("meta" :> PyDict(EmptyDict)))),
      Json(PyDict(("data" :> PyDict(DomainDataRequired
                                    @@ ("organization" :> PyStr("Example Inc"))
                                    @@ ("technologies" :> PyList(<<PyStr("nginx")>>))
                                    @@ ("emails" :> PyList(<<EmailJson>>))
                                    @@ ("not_a_field" :> PyInt(1))))
                  @@ ("meta" :> PyDict(("results" :> PyInt(1))
                                       @@ ("params" :> Dict1("domain", PyStr("example.com")))))
                  @@ ("extra" :> PyNone))),
      Json(PyDict(("data" :> PyDict(DomainDataRequired
                                    @@ ("emails" :> PyList(<<EmailRequired,
                                                             EmailUnverified>>))))
                  @@ ("meta" :> PyDict(EmptyDict)))) }

FinderDataRequired ==
    ("first_name" :> PyStr("Ada")) @@ ("last_name" :> PyStr("Lovelace"))
    @@ ("email" :> PyStr("ada@example.com")) @@ ("score" :> PyInt(97))
    @@ ("domain" :> PyStr("example.com")) @@ ("accept_all" :> PyBool(FALSE))

EmailFinderBodies ==
    { Json(PyDict(("data" :> PyDict(FinderDataRequired)) @@ ("meta" :> PyDict(EmptyDict)))),
      Json(PyDict(("data" :> PyDict(FinderDataRequired @@ ("company" :> PyStr("Acme"))
                                    @@ ("sources" :> PyList(<<SourceJson>>))
                                    @@ ("verification" :> PyNone)))
                  @@ ("meta" :> PyDict("params" :> Dict1("full_name", PyStr("Ada Lovelace")))))) }

VerifierDataRequired ==
    ("status" :> PyStr("valid")) @@ ("result" :> PyStr("deliverable"))
    @@ ("score" :> PyInt(100)) @@ ("email" :> PyStr("ada@example.com"))
    @@ Typed({"regexp", "mx_records", "smtp_server", "smtp_check"}, PyBool(TRUE))
    @@ Typed({"gibberish", "disposable", "webmail", "accept_all", "block"}, PyBool(FALSE))

EmailVerifierBodies ==
    { Json(PyDict(("data" :> PyDict(VerifierDataRequired)) @@ ("meta" :> PyDict(EmptyDict)))) }

\* well-formed bodies that fit no response model
MisfitBodies ==
    { Json(PyDict(("data" :> PyDict([f \in {"disposable", "webmail", "accept_all"} |->
                                         DomainDataRequired[f]]))
                  @@ ("meta" :> MetaCounts))),
      Json(Dict1("data", PyDict(DomainDataRequired))),
      Json(PyDict(("data" :> PyNone) @@ ("meta" :> MetaCounts))),
      Json(PyDict(("data" :> PyDict(DomainDataRequired
                                    @@ ("emails" :> PyList(<<Dict1("value", PyStr("x"))>>))))
                  @@ ("meta" :> MetaCounts))),
      Json(PyDict(("data" :> PyDict(DomainDataRequired @@ ("emails" :> PyNone)))
                  @@ ("meta" :> MetaCounts))) }

Bodies ==
    {NotJson} \cup ErrorBodies \cup DomainSearchBodies \cup EmailFinderBodies
    \cup EmailVerifierBodies \cup MisfitBodies

Statuses == {200, 399, 400, 401, 429, 500}

ConnectionFailure ==
    [kind |-> "raises", exc |-> [cls |-> "ConnectionError", text |-> "Network error"]]

Returns(status, body) ==
    [kind |-> "returns", response |-> [status_code |-> status, body |-> body]]

\* what session.request may do: raise a RequestException, or return a response
Transports ==
    { ConnectionFailure,
      [kind |-> "raises", exc |-> [cls |-> "Timeout", text |-> "Read timed out."]] }
    \cup { Returns(st, b) : st \in Statuses, b \in Bodies }

(* Arguments and transport behaviour do not interact in the client, so the  *)
(* whole argument space is explored against a few transport behaviours and  *)
(* the whole transport space against a few calls.                           *)
ProbeTransports == {ConnectionFailure, Returns(200, DomainSearchExampleBody)}

ProbeDomainSearchArgs ==
    { a \in DomainSearchArgs :
        /\ a.domain = PyStr("example.com")
        /\ \A f \in DOMAIN a \ {"domain", "limit"} : a[f] = PyNone
        /\ a.limit # PyInt(10) }

ProbeEmailFinderArgs ==
    { a \in EmailFinderArgs :
        /\ a.company = PyStr("Acme") /\ a.domain = PyNone /\ a.max_duration = PyNone
        /\ a.full_name \in {PyNone, PyStr("Ada Lovelace")}
        /\ a.first_name = PyStr("Ada") /\ a.last_name = PyStr("Lovelace") }

\* the pairs <<arguments, transport behaviour>> explored for an operation
Explored(args, probes) == (probes \X Transports) \cup (args \X ProbeTransports)

DomainSearchCalls == Explored(DomainSearchArgs, ProbeDomainSearchArgs)
EmailFinderCalls == Explored(EmailFinderArgs, ProbeEmailFinderArgs)
EmailVerifierCalls == Explored(EmailVerifierArgs, EmailVerifierArgs)

-----------------------------------------------------------------------------
(* The state machine: one client, one caller calling it sequentially. *)

NoCall == [op |-> "none"]

Init ==
    /\ client = NoClient
    /\ init_args = NoCall
    /\ init_raised = NoOutcome
    /\ failed_before = FALSE
    /\ pc = "idle"
    /\ call = NoCall
    /\ sent = <<>>
    /\ call_count = 0
    /\ reply = NoOutcome
    /\ result = NoOutcome

\* HunterClient(api_key) or HunterClient(api_key, timeout=...)
NewHunterClient ==
    \E args \in HunterClientArgs :
        LET made == HunterClient(args)
        IN  /\ ~client.constructed
            /\ pc = "idle"
            /\ init_args' = args
            /\ client' = IF made.kind = "returned" THEN made.value ELSE client
            /\ init_raised' = IF made.kind = "raised" THEN made ELSE NoOutcome
            /\ UNCHANGED <<failed_before, pc, call, sent, call_count, reply, result>>

\* the effect of a finished call `op(args)` during which the transport did `transport`
Finish(op, args, transport, done) ==
    /\ call_count + Len(done.sent) <= MaxRequests
    /\ call' = [op |-> op, args |-> args]
    /\ sent' = done.sent
    /\ call_count' = call_count + Len(done.sent)
    /\ reply' = IF done.sent = <<>> THEN NoOutcome ELSE transport
    /\ result' = done.out
    /\ pc' = "done"
    /\ client' = done.self
    /\ UNCHANGED <<init_args, init_raised, failed_before>>

DomainSearch ==
    /\ client.constructed
    /\ pc = "idle"
    /\ \E c \in DomainSearchCalls :
          Finish("domain_search", c[1], c[2], domain_search(client, c[1], c[2]))

EmailFinder ==
    /\ client.constructed
    /\ pc = "idle"
    /\ \E c \in EmailFinderCalls :
          Finish("email_finder", c[1], c[2], email_finder(client, c[1], c[2]))

EmailVerifier ==
    /\ client.constructed
    /\ pc = "idle"
    /\ \E c \in EmailVerifierCalls :
          Finish("email_verifier", c[1], c[2], email_verifier(client, c[1], c[2]))

\* the caller has taken the return value or the exception and goes on
Return ==
    /\ pc = "done"
    /\ pc' = "idle"
    /\ call' = NoCall
    /\ sent' = <<>>
    /\ reply' = NoOutcome
    /\ result' = NoOutcome
    /\ failed_before' = (failed_before \/ result.kind = "raised")
    /\ UNCHANGED <<client, init_args, init_raised, call_count>>

Next == NewHunterClient \/ DomainSearch \/ EmailFinder \/ EmailVerifier \/ Return

Spec == Init /\ [][Next]_vars

-----------------------------------------------------------------------------
(* Vocabulary of the properties *)

\* an argument is present when it is given and, for a string, not empty
Present(x) == x # PyNone /\ x # PyStr("")

Finished(op) == pc = "done" /\ call.op = op

\* the required-argument precondition of the call made is violated
PreconditionViolated ==
    \/ /\ call.op = "domain_search"
       /\ ~Present(call.args.domain) /\ ~Present(call.args.company)
    \/ /\ call.op = "email_finder"
       /\ \/ ~Present(call.args.domain) /\ ~Present(call.args.company)
          \/ /\ ~(Present(call.args.first_name) /\ Present(call.args.last_name))
             /\ ~Present(call.args.full_name)
    \/ /\ call.op = "email_verifier"
       /\ ~Present(call.args.email)

RaisedError(cls) == result.kind = "raised" /\ result.exc.error = cls

\* the call got an HTTP response with this status
Answered(status) ==
    pc = "done" /\ reply.kind = "returns" /\ reply.response.status_code = status

AnsweredBelow400 ==
    pc = "done" /\ reply.kind = "returns" /\ reply.response.status_code < 400

AnsweredOtherError ==
    /\ pc = "done" /\ reply.kind = "returns"
    /\ reply.response.status_code >= 400
    /\ reply.response.status_code \notin {401, 429}

-----------------------------------------------------------------------------
(* C1: a call of domain_search, email_finder or email_verifier whose        *)
(* required-argument precondition is violated raises a validation error     *)
(* (ValueError), and no HTTP request was issued on the transport during     *)
(* that call.                                                               *)
C1_ValidationBeforeRequest ==
    (pc = "done" /\ PreconditionViolated)
        => /\ RaisedError("ValueError")
           /\ sent = <<>>
           /\ reply = NoOutcome

C1_Witness ==
    /\ Finished("email_finder")
    /\ Present(call.args.domain)
    /\ ~Present(call.args.full_name) /\ ~Present(call.args.last_name)
    /\ RaisedError("ValueError")
    /\ sent = <<>>
    /\ call_count > 0

(* C2: a call whose arguments pass validation issues exactly one HTTP       *)
(* request and then returns or fails, whatever that request's outcome: no   *)
(* second request, no retry.                                                *)
C2_ExactlyOneRequest ==
    (pc = "done" /\ ~PreconditionViolated)
        => /\ Len(sent) = 1
           /\ reply \in Transports
           /\ result.kind \in {"returned", "raised"}

C2_Witness ==
    /\ Answered(429)
    /\ Len(sent) = 1
    /\ result.kind = "raised"

(* C3: a response with status 401 makes the call fail with an               *)
(* authentication error with status_code 401 and message "Invalid API key", *)
(* whatever the body holds, on every endpoint.                              *)
C3_Unauthorized ==
    Answered(401) => result = Raised(HunterAuthError(PyStr("Invalid API key"), 401))

C3_Witness ==
    /\ Answered(401)
    /\ Finished("email_verifier")
    /\ reply.response.body \in EmailVerifierBodies
    /\ RaisedError("HunterAuthError")

(* C4: a response with status 429 makes the call fail with a rate-limit     *)
(* error with status_code 429 and message "Rate limit exceeded", whatever   *)
(* the body holds; the request is not sent again.                           *)
C4_RateLimited ==
    Answered(429) =>
        /\ result = Raised(HunterRateLimitError(PyStr("Rate limit exceeded"), 429))
        /\ Len(sent) = 1

C4_Witness ==
    /\ Answered(429)
    /\ Finished("domain_search")
    /\ reply.response.body = DomainSearchExampleBody
    /\ RaisedError("HunterRateLimitError")

\* errors[0].details of a body when it parses as JSON and has that field, else
\* the fixed fallback
ExpectedErrorMessage(body) ==
    IF /\ body.wellformed
       /\ body.value.k = "dict"
       /\ "errors" \in DOMAIN body.value.d
       /\ body.value.d["errors"].k = "list"
       /\ Len(body.value.d["errors"].items) > 0
       /\ body.value.d["errors"].items[1].k = "dict"
       /\ "details" \in DOMAIN body.value.d["errors"].items[1].d
    THEN body.value.d["errors"].items[1].d["details"]
    ELSE PyStr("API request failed")

(* C5: a response with a status >= 400 other than 401 and 429 makes the     *)
(* call fail with a generic API error carrying that status, whose message   *)
(* is errors[0].details when the body is JSON with that field and the       *)
(* fallback "API request failed" for every other body.                      *)
C5_GenericError ==
    AnsweredOtherError =>
        result = Raised(HunterAPIError(ExpectedErrorMessage(reply.response.body),
                                       reply.response.status_code))

(* C6: when the exchange fails at the network level the call fails with a   *)
(* generic API error, not an authentication or rate-limit error, whose      *)
(* message is "Request failed: " followed by the fault's description; no    *)
(* response is classified, so the error carries no response status (0).     *)
C6_NetworkFailure ==
    (pc = "done" /\ reply.kind = "raises") =>
        /\ RaisedError("HunterAPIError")
        /\ result.exc.message = PyStr("Request failed: " \o reply.exc.text)
        /\ result.exc.status_code = 0
        /\ Len(sent) = 1

C6_Witness ==
    /\ pc = "done"
    /\ reply.kind = "raises" /\ reply.exc.cls = "Timeout"
    /\ RaisedError("HunterAPIError")
    /\ result.exc.message = PyStr("Request failed: Read timed out.")

\* the response model and the endpoint of each public operation
ResponseClass(op) ==
    CASE op = "domain_search" -> "DomainSearchResponse"
      [] op = "email_finder" -> "EmailFinderResponse"
      [] op = "email_verifier" -> "EmailVerificationResponse"

Endpoint(op) ==
    CASE op = "domain_search" -> "domain-search"
      [] op = "email_finder" -> "email-finder"
      [] op = "email_verifier" -> "email-verifier"

(* a parsed JSON value contains the required fields of the schema `type`:  *)
(* for a model, an object with every required field, at every level the    *)
(* object reaches (its nested objects and the objects in its lists)         *)
RECURSIVE ContainsRequiredFields(_, _)
ContainsRequiredFields(type, x) ==
    IF type \in {"str", "int", "bool"}
    THEN x.k = type
    ELSE /\ x.k = "dict"
         /\ \A f \in DOMAIN RequiredFields(type) :
               f \in DOMAIN x.d /\ ContainsRequiredFields(RequiredFields(type)[f], x.d[f])
         /\ \A f \in DOMAIN OptionalFields(type) \cap DOMAIN x.d :
               x.d[f].k = "dict" => ContainsRequiredFields(OptionalFields(type)[f], x.d[f])
         /\ \A f \in DOMAIN ListFields(type) \cap DOMAIN x.d :
               x.d[f].k = "list" =>
                  \A i \in 1..Len(x.d[f].items) :
                     x.d[f].items[i].k = "dict" =>
                        ContainsRequiredFields(ListFields(type)[f], x.d[f].items[i])

(* ... and, besides, every optional or list field the object gives holds a  *)
(* value its declaration accepts: null or the declared type for an optional *)
(* field, a list of the declared type for a list field                      *)
RECURSIVE FitsSchema(_, _)
FitsSchema(type, x) ==
    IF type \in {"str", "int", "bool"}
    THEN x.k = type
    ELSE /\ x.k = "dict"
         /\ \A f \in DOMAIN RequiredFields(type) :
               f \in DOMAIN x.d /\ FitsSchema(RequiredFields(type)[f], x.d[f])
         /\ \A f \in DOMAIN OptionalFields(type) \cap DOMAIN x.d :
               x.d[f] = PyNone \/ FitsSchema(OptionalFields(type)[f], x.d[f])
         /\ \A f \in DOMAIN ListFields(type) \cap DOMAIN x.d :
               /\ x.d[f].k = "list"
               /\ \A i \in 1..Len(x.d[f].items) :
                     FitsSchema(ListFields(type)[f], x.d[f].items[i])

(* a record of the response models holds the values of a parsed JSON value: *)
(* each field the object gives (not null) has the object's value, field by  *)
(* field and item by item                                                   *)
RECURSIVE Agrees(_, _)
Agrees(v, x) ==
    CASE x.k \in {"str", "int", "bool", "None"} -> v = x
      [] x.k = "list" ->
            /\ v.k = "list"
            /\ Len(v.items) = Len(x.items)
            /\ \A i \in 1..Len(x.items) : Agrees(v.items[i], x.items[i])
      [] x.k = "dict" ->
            /\ v.k = "model"
            /\ \A f \in DOMAIN x.d \cap DOMAIN v.fields : Agrees(v.fields[f], x.d[f])

\* what C7 promises of a finished call: the operation's Response, holding the
\* body's data and meta
ReturnsResponseOfBody ==
    /\ result.kind = "returned"
    /\ result.value.k = "model"
    /\ result.value.cls = ResponseClass(call.op)
    /\ DOMAIN result.value.fields = {"data", "meta"}
    /\ Agrees(result.value, reply.response.body.value)

(* C7, as stated: a response with a status below 400 (200 or not) whose     *)
(* body is JSON containing the required fields of the operation's response  *)
(* model makes the call return that operation's Response, with data and     *)
(* meta equal to the body's values.                                         *)
C7_AsStated ==
    ( /\ AnsweredBelow400
      /\ reply.response.body.wellformed
      /\ ContainsRequiredFields(ResponseClass(call.op), reply.response.body.value) )
        => ReturnsResponseOfBody

(* C7, amended: a response with a status below 400 (200 or not) whose body  *)
(* is JSON containing the required fields of the operation's response model *)
(* and giving every optional or list field a value its declaration accepts  *)
(* makes the call return that operation's Response, with data and meta      *)
(* equal to the body's values.                                              *)
C7_SuccessResponse ==
    ( /\ AnsweredBelow400
      /\ reply.response.body.wellformed
      /\ FitsSchema(ResponseClass(call.op), reply.response.body.value) )
        => ReturnsResponseOfBody

C7_Witness ==
    /\ Answered(399)
    /\ Finished("email_finder")
    /\ result.kind = "returned"
    /\ result.value.cls = "EmailFinderResponse"
    /\ result.value.fields["data"].fields["email"] = PyStr("ada@example.com")
    /\ Len(result.value.fields["data"].fields["sources"].items) = 1

(* C8: a response with a status below 400 whose body is not well-formed     *)
(* JSON makes the call fail with a generic API error wrapping the parse     *)
(* fault, with status_code 0 and not the response's status; nothing is      *)
(* returned.                                                                *)
C8_MalformedBody ==
    (AnsweredBelow400 /\ ~reply.response.body.wellformed) =>
        result = Raised(HunterAPIError(
                     PyStr("Invalid JSON response: " \o reply.response.body.fault), 0))

C8_Witness ==
    /\ Answered(200)
    /\ ~reply.response.body.wellformed
    /\ RaisedError("HunterAPIError")
    /\ result.exc.status_code = 0

(* C9: email_finder passes validation exactly when (domain or company is    *)
(* present) and ((first_name and last_name are both present) or full_name   *)
(* is present); otherwise it fails with a validation error naming the       *)
(* missing combination: domain/company first, else the name part.           *)
C9_EmailFinderValidation ==
    Finished("email_finder") =>
        LET a == call.args
            hasTarget == Present(a.domain) \/ Present(a.company)
            hasName == (Present(a.first_name) /\ Present(a.last_name))
                       \/ Present(a.full_name)
        IN  /\ (hasTarget /\ hasName) <=> (Len(sent) = 1)
            /\ (hasTarget /\ hasName) => ~RaisedError("ValueError")
            /\ ~hasTarget =>
                  result = Raised(ValueError("Either domain or company must be provided"))
            /\ (hasTarget /\ ~hasName) =>
                  result = Raised(ValueError(
                      "Either first_name and last_name, or full_name must be provided"))

C9_Witness ==
    /\ Finished("email_finder")
    /\ Present(call.args.domain)
    /\ Present(call.args.first_name)
    /\ ~Present(call.args.last_name) /\ ~Present(call.args.full_name)
    /\ result = Raised(ValueError(
           "Either first_name and last_name, or full_name must be provided"))

\* the query name of a parameter
QueryName(param) == IF param = "type_filter" THEN "type" ELSE param

\* a parameter counts as supplied when present, and a number also when it is 0
Supplied(x) == Present(x) \/ x.k = "int"

(* C10: the one request of an operation is a GET to the operation's own     *)
(* endpoint under the v2 base URL, with the configured timeout; its query   *)
(* has exactly the key api_key, holding the client's key, and one key per   *)
(* supplied parameter holding its value (type_filter as type), none for an  *)
(* absent one; a limit, offset or max_duration of 0 is supplied.  A string  *)
(* parameter is supplied when it is present, that is given and not empty.   *)
C10_RequestShape ==
    (pc = "done" /\ sent # <<>>) =>
        LET request == sent[1]
            a == call.args
            supplied == {f \in DOMAIN a : Supplied(a[f])}
        IN  /\ request.method = "GET"
            /\ request.url = "https://api.hunter.io/v2/" \o Endpoint(call.op)
            /\ request.timeout = client.timeout
            /\ DOMAIN request.params = {"api_key"} \cup {QueryName(f) : f \in supplied}
            /\ request.params["api_key"] = client.api_key
            /\ \A f \in supplied : request.params[QueryName(f)] = a[f]

C10_Witness ==
    /\ Finished("domain_search")
    /\ Len(sent) = 1
    /\ client.timeout = 60
    /\ call.args.limit = PyInt(0) /\ call.args.offset = PyInt(0)
    /\ call.args.type_filter = PyStr("personal")
    /\ call.args.company = PyStr("")
    /\ DOMAIN sent[1].params = {"api_key", "domain", "limit", "offset", "type"}

-----------------------------------------------------------------------------
(* a JSON object lacks a required field of the schema `cls`: one of the     *)
(* model's required fields is not among its keys, or the object it gives    *)
(* for a required nested model lacks one of that model's                    *)
RECURSIVE LacksRequiredField(_, _)
LacksRequiredField(cls, x) ==
    /\ x.k = "dict"
    /\ \E f \in DOMAIN RequiredFields(cls) :
          \/ f \notin DOMAIN x.d
          \/ /\ RequiredFields(cls)[f] \notin {"str", "int", "bool"}
             /\ LacksRequiredField(RequiredFields(cls)[f], x.d[f])

(* C11: a response with a status below 400 whose body is well-formed JSON,  *)
(* an object lacking a field the operation's schema requires (no meta, or   *)
(* data without domain for domain_search), makes the call raise the schema  *)
(* validation error of the operation's response model, as the model raised  *)
(* it: not an authentication, rate-limit or generic API error, and nothing  *)
(* is returned.                                                             *)
C11_SchemaErrorPropagates ==
    ( /\ AnsweredBelow400
      /\ reply.response.body.wellformed
      /\ LacksRequiredField(ResponseClass(call.op), reply.response.body.value) )
        => /\ result = Raised(ValidationError(ResponseClass(call.op)))
           /\ result.exc.error \notin
                 {"HunterAuthError", "HunterRateLimitError", "HunterAPIError"}

\* domain_search answered 200 with a body that has data but no meta, or whose data has no domain
C11_Witness ==
    /\ Finished("domain_search")
    /\ Answered(200)
    /\ reply.response.body.wellformed
    /\ reply.response.body.value.k = "dict"
    /\ \/ "meta" \notin DOMAIN reply.response.body.value.d
       \/ /\ "data" \in DOMAIN reply.response.body.value.d
          /\ reply.response.body.value.d["data"].k = "dict"
          /\ "domain" \notin DOMAIN reply.response.body.value.d["data"].d
    /\ "data" \in DOMAIN reply.response.body.value.d
    /\ RaisedError("ValidationError")

-----------------------------------------------------------------------------
(* a value is a fully populated record of the schema `type`: an instance of *)
(* the model holding every declared field, each required field populated,   *)
(* each optional field None or populated, each list field a list of         *)
(* populated items                                                          *)
RECURSIVE Populated(_, _)
Populated(type, v) ==
    IF type \in {"str", "int", "bool"}
    THEN v.k = type
    ELSE /\ v.k = "model"
         /\ v.cls = type
         /\ DOMAIN v.fields = DOMAIN RequiredFields(type) \cup DOMAIN OptionalFields(type)
                                 \cup DOMAIN ListFields(type)
         /\ \A f \in DOMAIN RequiredFields(type) :
               Populated(RequiredFields(type)[f], v.fields[f])
         /\ \A f \in DOMAIN OptionalFields(type) :
               v.fields[f] = PyNone \/ Populated(OptionalFields(type)[f], v.fields[f])
         /\ \A f \in DOMAIN ListFields(type) :
               /\ v.fields[f].k = "list"
               /\ \A i \in 1..Len(v.fields[f].items) :
                     Populated(ListFields(type)[f], v.fields[f].items[i])

(* C12: every finished call of a public operation has exactly one of two    *)
(* outcomes: it returned a fully populated Response of the operation, or it *)
(* raised an error and returned no data; never both, never a partial        *)
(* Response, never neither.                                                 *)
C12_ReturnsOrRaises ==
    pc = "done" =>
        \/ /\ result.kind = "returned"
           /\ DOMAIN result = {"kind", "value"}
           /\ Populated(ResponseClass(call.op), result.value)
        \/ /\ result.kind = "raised"
           /\ DOMAIN result = {"kind", "exc"}

\* a call that returned a Response with a non-empty list of emails
C12_Witness ==
    /\ Finished("domain_search")
    /\ result.kind = "returned"
    /\ Populated("DomainSearchResponse", result.value)
    /\ result.value.fields["data"].fields["emails"].items # <<>>

-----------------------------------------------------------------------------
\* the call raised one of the three errors of exceptions.py
RaisedHunterError ==
    /\ pc = "done"
    /\ result.kind = "raised"
    /\ result.exc.error \in {"HunterAuthError", "HunterRateLimitError", "HunterAPIError"}

\* a validation error carries no status code
ValidationErrorHasNoStatusCode ==
    (pc = "done" /\ RaisedError("ValueError")) => "status_code" \notin DOMAIN result.exc

(* C13, as stated: every authentication, rate-limit or generic API error    *)
(* raised by a call that got a response carries that response's HTTP status *)
(* code as status_code, and a validation error carries no status code.      *)
C13_AsStated ==
    /\ (RaisedHunterError /\ reply.kind = "returns")
          => result.exc.status_code = reply.response.status_code
    /\ ValidationErrorHasNoStatusCode

(* C13, amended: an authentication, rate-limit or generic API error raised  *)
(* for a response with a status of 400 or more carries that status as       *)
(* status_code; a generic API error raised for a network failure or for a   *)
(* malformed body below 400 carries status_code 0; a validation error       *)
(* carries no status code.                                                  *)
C13_StatusCodeCarried ==
    /\ (RaisedHunterError /\ reply.kind = "returns" /\ reply.response.status_code >= 400)
          => result.exc.status_code = reply.response.status_code
    /\ (RaisedHunterError /\ reply.kind = "returns" /\ reply.response.status_code < 400)
          => /\ ~reply.response.body.wellformed
             /\ result.exc.status_code = DefaultStatusCode
    /\ (RaisedHunterError /\ reply.kind = "raises")
          => result.exc.status_code = DefaultStatusCode
    /\ ValidationErrorHasNoStatusCode

\* a generic error carrying the status 500 of the response that produced it
C13_Witness ==
    /\ Answered(500)
    /\ RaisedError("HunterAPIError")
    /\ result.exc.status_code = 500

-----------------------------------------------------------------------------
(* C14: constructing a client with an empty API key raises a ValueError     *)
(* ("API key is required") and yields no client; constructing it with a     *)
(* non-empty key yields a client holding that key, the timeout given (30    *)
(* when none is given), a session of its own and the v2 base URL.           *)
C14_Construction ==
    init_args # NoCall =>
        IF ~Present(init_args.api_key)
        THEN /\ client = NoClient
             /\ init_raised = Raised(ValueError("API key is required"))
        ELSE /\ init_raised = NoOutcome
             /\ client.constructed
             /\ client.api_key = init_args.api_key
             /\ client.timeout =
                   IF init_args.timeout = <<>> THEN 30 ELSE init_args.timeout[1]
             /\ client.session = "requests.Session#1"
             /\ client.base_url = "https://api.hunter.io/v2/"

\* a client constructed from a key alone (no timeout given), which has since sent a request
C14_Witness ==
    /\ init_args = [api_key |-> PyStr("key-A"), timeout |-> <<>>]
    /\ client.constructed
    /\ client.timeout = 30
    /\ call_count = 1

-----------------------------------------------------------------------------
\* the models C15 speaks of
SchemaRecords ==
    {"Email", "DomainSearchData", "EmailFinderData", "EmailVerificationData",
     "Meta", "EmailVerification"}

(* the record v built from the JSON object x, and every record built from   *)
(* an object inside x, has its defaults if its object gave the required     *)
(* fields alone: every list field the empty list, every optional field      *)
(* None, every required field the value given                               *)
RECURSIVE HasDefaultsWhereRequiredOnly(_, _)
HasDefaultsWhereRequiredOnly(v, x) ==
    /\ (v.cls \in SchemaRecords /\ DOMAIN x.d = DOMAIN RequiredFields(v.cls)) =>
          /\ \A f \in DOMAIN ListFields(v.cls) :
                f \in DOMAIN v.fields /\ v.fields[f] = PyList(<<>>)
          /\ \A f \in DOMAIN OptionalFields(v.cls) :
                f \in DOMAIN v.fields /\ v.fields[f] = PyNone
          /\ \A f \in DOMAIN RequiredFields(v.cls) : v.fields[f] = x.d[f]
    /\ \A f \in DOMAIN x.d \cap DOMAIN v.fields :
          CASE v.fields[f].k = "model" -> HasDefaultsWhereRequiredOnly(v.fields[f], x.d[f])
            [] v.fields[f].k = "list" ->
                  \A i \in 1..Len(v.fields[f].items) :
                     v.fields[f].items[i].k = "model" =>
                        HasDefaultsWhereRequiredOnly(v.fields[f].items[i], x.d[f].items[i])
            [] OTHER -> TRUE

(* C15: a record of Email, DomainSearchData, EmailFinderData,               *)
(* EmailVerificationData, Meta or EmailVerification constructed from an     *)
(* object holding only the model's required fields has every list-valued    *)
(* field (sources, emails, technologies, linked_domains) equal to the empty *)
(* list, never None or missing, every optional scalar field None, and every *)
(* required field equal to the value given.                                 *)
C15_Defaults ==
    (pc = "done" /\ result.kind = "returned") =>
        HasDefaultsWhereRequiredOnly(result.value, reply.response.body.value)

\* a Response whose data, meta, first email and second email's verification were
\* each built from the required fields alone
C15_Witness ==
    /\ Finished("domain_search")
    /\ result.kind = "returned"
    /\ reply.response.body.value.d["meta"] = PyDict(EmptyDict)
    /\ "emails" \in DOMAIN reply.response.body.value.d["data"].d
    /\ reply.response.body.value.d["data"].d["emails"] =
          PyList(<<EmailRequired, EmailUnverified>>)
    /\ result.value.fields["data"].fields["technologies"] = PyList(<<>>)
    /\ result.value.fields["data"].fields["emails"].items[1].fields["sources"] = PyList(<<>>)
    /\ result.value.fields["data"].fields["emails"].items[2].fields["verification"].fields["date"]
          = PyNone
    /\ result.value.fields["meta"].fields["params"] = PyNone

-----------------------------------------------------------------------------
\* the HTTP exchange of the call failed: no response, a status of 400 or more,
\* or a body below 400 that is not JSON
ExchangeFailed ==
    /\ pc = "done"
    /\ \/ reply.kind = "raises"
       \/ /\ reply.kind = "returns"
          /\ \/ reply.response.status_code >= 400
             \/ ~reply.response.body.wellformed

(* C16: an authentication error and a rate-limit error are each also a      *)
(* generic Hunter API error, with its message and status_code, so a handler *)
(* of the generic API error receives the error of every call answered 401,  *)
(* 429 or another status of 400 or more, of every network failure and of    *)
(* every malformed body; a validation error is not a Hunter API error and   *)
(* is not received by such a handler.                                       *)
C16_GenericHandlerReceives ==
    /\ IsSubclass("HunterAuthError", "HunterAPIError")
    /\ IsSubclass("HunterRateLimitError", "HunterAPIError")
    /\ RaisedHunterError => DOMAIN result.exc = {"error", "message", "status_code"}
    /\ ExchangeFailed => (result.kind = "raised" /\ IsInstance(result.exc, "HunterAPIError"))
    /\ (pc = "done" /\ RaisedError("ValueError")) => ~IsInstance(result.exc, "HunterAPIError")

-----------------------------------------------------------------------------
\* the five error kinds of the taxonomy: validation, authentication, rate-limit,
\* generic API and schema
TaxonomyErrors ==
    {"ValueError", "HunterAuthError", "HunterRateLimitError", "HunterAPIError",
     "ValidationError"}

(* C17: every failing call fails with one of the five error kinds of the    *)
(* taxonomy, whatever the HTTP outcome: also for a status of 400 or more    *)
(* with a body whose errors[0] is not an object or whose JSON value is not  *)
(* an object, and for a status below 400 with a JSON body that is not an    *)
(* object; and no failed exchange is swallowed into a returned Response.    *)
C17_ErrorTaxonomy ==
    /\ (pc = "done" /\ result.kind = "raised") => result.exc.error \in TaxonomyErrors
    /\ ExchangeFailed => result.kind = "raised"
    /\ ( /\ AnsweredBelow400
         /\ reply.response.body.wellformed
         /\ reply.response.body.value.k # "dict" ) => result.kind = "raised"

-----------------------------------------------------------------------------
(* C18: no step after construction changes the client: its API key, timeout *)
(* and base URL stay as constructed, its session stays the same object, and *)
(* it gains no attribute, so no result or error of a call is kept on it; a  *)
(* call acts only through the requests it issues on the session.            *)
C18_ClientFrame ==
    [][client.constructed =>
          /\ client' = client
          /\ DOMAIN client' = {"constructed", "api_key", "timeout", "session", "base_url"}
          /\ init_args' = init_args]_vars

\* a call has returned a Response after an earlier call failed, two requests
\* have gone through the session, and the client is as its constructor made it
C18_Witness ==
    /\ pc = "done"
    /\ failed_before
    /\ result.kind = "returned"
    /\ call_count = 2
    /\ Returned(client) = HunterClient(init_args)

-----------------------------------------------------------------------------
\* the public operation `op` called on `self`
Apply(op, self, args, transport) ==
    CASE op = "domain_search" -> domain_search(self, args, transport)
      [] op = "email_finder" -> email_finder(self, args, transport)
      [] op = "email_verifier" -> email_verifier(self, args, transport)

(* C19: what a call sends and what it returns or raises is determined by    *)
(* its arguments and by the outcome of its own HTTP exchange, not by the    *)
(* calls made before it: after any history of calls, failed ones included,  *)
(* the call sends the request and has the result (the same Response, or the *)
(* same error kind, message and status code) that the same call with the    *)
(* same HTTP outcome has as the first call on a newly constructed client.   *)
(* Any two histories therefore agree with each other.                       *)
C19_HistoryIndependent ==
    pc = "done" =>
        LET first == Apply(call.op, HunterClient(init_args).value, call.args, reply)
        IN  /\ sent = first.sent
            /\ result = first.out

\* an authentication failure of a second request, after an earlier call failed
C19_Witness ==
    /\ pc = "done"
    /\ failed_before
    /\ call_count = 2
    /\ Answered(401)
    /\ RaisedError("HunterAuthError")

====
